---- MODULE Spec2Model ----
(***************************************************************************)
(* Frame.io / Adobe IMS native-app OAuth client (PKCE, custom URL scheme). *)
(*                                                                         *)
(* The module models three parts of the program as state machines over    *)
(* one set of variables:                                                   *)
(*   - the token store and get_valid_token (src/src/auth.py 151-215),      *)
(*   - the redirect capture protocol with the Electron helper             *)
(*     (src/src/electron_auth.py 172-443),                                 *)
(*   - the orchestration authenticate / authenticate_headless             *)
(*     (src/src/auth.py 242-446).                                          *)
(*                                                                         *)
(* SpecToken runs the token operations against a wall clock and a         *)
(* concurrent reader; Spec runs authentication attempts, the helper       *)
(* process being a concurrent process of its own; SpecLoad runs the        *)
(* commands that read the token file on any file content; SpecPkce runs    *)
(* generate_code_verifier (src/src/pkce.py 21-35) on every documented      *)
(* length; SpecCapture runs one call of capture_oauth_redirect with weak   *)
(* fairness on its own steps.                                              *)
(***************************************************************************)
EXTENDS Integers, Sequences, FiniteSets, TLC

VARIABLES
    \* ---- environment shared by every operation
    clock,          \* wall clock, in ticks of 1/TicksPerSec second
    tokenFile,      \* TOKEN_FILE on disk: [exists, content, mode]
    createMode,     \* mode a newly created file gets (0666 & ~umask)
    \* ---- the CLI process
    pc,             \* position of the CLI process in its current operation
    caller,         \* which function called save_tokens
    tokens,         \* get_valid_token: the dict load_tokens returned
    token_data,     \* the dict handed to save_tokens (new_tokens / token_data)
    ret,            \* what the last operation returned
    hist,           \* ghost record of the current call (see NoHist)
    \* ---- a second process reading the token file (load_tokens)
    rpc,            \* its position
    rret,           \* what its load_tokens returned
    \* ---- one authentication attempt (authenticate / authenticate_headless)
    state,          \* the state generate_pkce_pair returned
    cap,            \* what capture_oauth_redirect returned: (code, state, error)
    \* ---- capture_oauth_redirect and the handshake directory DATA_DIR
    args_file,      \* DATA_DIR/args.json exists
    result_file,    \* DATA_DIR/result.txt: [exists, text]
    captured_url,   \* the local captured_url
    elapsed,        \* time.time() - start_time, in poll intervals
    chist,          \* ghost record of the capture (see NoCapHist)
    \* ---- the Electron helper, a child process
    child,          \* [st, url, wrote, stdout, sigterm]
    \* ---- generate_code_verifier (pkce.py)
    code_verifier   \* [at, length, random_bytes, verifier], sizes only

\* what the token operations leave alone
authSide == <<state, cap, args_file, result_file, captured_url, elapsed, chist, child,
              code_verifier>>

vars == <<clock, tokenFile, createMode, pc, caller, tokens, token_data,
          ret, hist, rpc, rret,
          state, cap, args_file, result_file, captured_url, elapsed, chist, child,
          code_verifier>>

----------------------------------------------------------------------------
(* Bounds of the model.                                                    *)

\* resolution of the wall clock: ticks per second (time.time() is a float)
TicksPerSec == 2
\* the clock is observed within MaxSub ticks after each multiple of JumpSecs
JumpSecs == 100
MaxSub == 1
\* last instant of the wall clock, in ticks
MaxClock == 401

(* Program constants.                                                      *)

\* get_valid_token: "expires_at - 300"
ExpiryBuffer == 300
\* tokens.get("expires_at", 0)
DefaultExpiresAt == 0

----------------------------------------------------------------------------
(* Python values.                                                          *)

\* None, where a string is expected
None == "None"
\* None, where a dict is expected
NoneDict == [none |-> TRUE]

\* d.get(k, default)
Get(d, k, default) == IF k \in DOMAIN d THEN d[k] ELSE default

\* d[k] = v
Put(d, k, v) == [x \in (DOMAIN d) \cup {k} |-> IF x = k THEN v ELSE d[x]]

\* truthiness of a string-or-None value
Truthy(s) == s # None /\ s # ""

\* int(time.time())
IntTime(t) == t \div TicksPerSec

\* instants at which the model lets the clock be observed
OnGrid(t) == t % (JumpSecs * TicksPerSec) <= MaxSub

----------------------------------------------------------------------------
(* The identity provider's token endpoint (external): its possible         *)
(* 200-responses.  expires_in and refresh_token are optional.              *)

ExpiresInValues == {400}

Responses(at, rt) ==
    LET base == [k \in {"access_token"} |-> at]
        withRt == {base, Put(base, "refresh_token", rt)}
    IN  withRt \cup {Put(d, "expires_in", e) : d \in withRt, e \in ExpiresInValues}

ExchangeResponses == Responses("AT1", "RT1")
RefreshResponses == Responses("AT2", "RT2")

----------------------------------------------------------------------------
(* The token file.                                                         *)

OwnerOnly == "0600"
NoFile == [exists |-> FALSE, content |-> [kind |-> "none"], mode |-> "none"]

\* file content holding the JSON serialisation of dict d
JsonOf(d) == [kind |-> "json", data |-> d]
EmptyContent == [kind |-> "empty"]

\* other things the file may hold: bytes that are no UTF-8 text, text that is
\* no JSON document, the JSON documents [1] (a non-empty array) and null
Undecodable == [kind |-> "undecodable"]
InvalidJson == [kind |-> "invalid"]
JsonArray == [kind |-> "json_array"]
JsonNull == [kind |-> "json_null"]

\* a Python value that is no dict and is truthy (the list [1])
NotADict == [array |-> TRUE]

\* load_tokens line 170: read_text() decodes the bytes; UnicodeDecodeError is a
\* ValueError, which "except (json.JSONDecodeError, IOError)" does not catch
LoadRaises(content) == content.kind = "undecodable"

\* load_tokens' try block on the text read: json.loads(text), or None when
\* it raises JSONDecodeError (an empty or truncated file is no JSON document)
JsonLoadsOrNone(content) ==
    IF content.kind = "json" THEN content.data
    ELSE IF content.kind = "json_array" THEN NotADict
    ELSE NoneDict

\* get_valid_token line 193: "not tokens" (None, or an empty dict)
NotTokens(t) == t = NoneDict \/ DOMAIN t = {}

\* get_valid_token line 197: tokens.get raises AttributeError on a list
GetRaises(t) == t = NotADict

\* what an operation returned: a token string (get_valid_token), an error kind
\* or a token dict (authenticate), or an exception that left the function
Ret(op, raised, token, error, data) ==
    [op |-> op, raised |-> raised, token |-> token, error |-> error,
     desc |-> None, data |-> data]
NoRet == Ret("none", FALSE, None, None, NoneDict)
\* (None, None, {"error": error, "error_description": desc})
ErrRet(op, error, desc) ==
    [op |-> op, raised |-> FALSE, token |-> None, error |-> error,
     desc |-> desc, data |-> NoneDict]

\* ghost record of the current call of the CLI process:
\*   before      the token file when the call started
\*   wrote       the call changed the token file
\*   now         the clock value get_valid_token compared with expires_at
\*   refresh     "no" | "sent" | "ok" | "failed": the refresh request
\*   response    the 200-response of the token endpoint, if any
\*   exchanged   number of token-exchange requests sent
\*   saves       number of calls of save_tokens
\*   failure     str(e) of the exception the token exchange raised, if any
\*   auth_url    the authorization URL built for this attempt (its query)
\*   request     the form data posted to the token endpoint by the exchange
\*   reply       the non-200 response of the token endpoint, if any
NoHist == [before |-> NoFile, wrote |-> FALSE, now |-> -1, refresh |-> "no",
           response |-> NoneDict, exchanged |-> 0, saves |-> 0, failure |-> None,
           auth_url |-> NoneDict, request |-> NoneDict,
           reply |-> [status |-> None, text |-> None, json |-> "none",
                      obj |-> NoneDict]]

\* no response was received (httpx raised a transport error)
NoReply == NoHist.reply

\* non-200 responses of the token endpoint: the status code, response.text,
\* and what response.json() makes of the text ("object" with its members,
\* "array", or "invalid" when the text is not JSON)
ErrorResponses ==
    {[status |-> "400", text |-> "{error_description: invalid_grant}",
      json |-> "object", obj |-> [k \in {"error_description"} |-> "invalid_grant"]],
     [status |-> "401", text |-> "{error: invalid_client}",
      json |-> "object", obj |-> [k \in {"error"} |-> "invalid_client"]],
     [status |-> "502", text |-> "Bad Gateway", json |-> "invalid", obj |-> NoneDict],
     [status |-> "500", text |-> "[]", json |-> "array", obj |-> NoneDict],
     [status |-> "503", text |-> "", json |-> "invalid", obj |-> NoneDict]}

\* auth.py 96-99 / 138-141: str(e) of what the non-200 branch raises.
\* error_data = response.json() if response.text else {}; response.json()
\* raises on a text that is not JSON, and .get on a list raises
FailureMessage(prefix, r) ==
    IF r.text # "" /\ r.json = "invalid"
        THEN "Expecting value: line 1 column 1 (char 0)"
    ELSE IF r.text # "" /\ r.json = "array"
        THEN "'list' object has no attribute 'get'"
    ELSE prefix \o ": " \o r.status \o " - "
            \o Get(IF r.text = "" THEN NoneDict ELSE r.obj,
                   "error_description", r.text)

\* str(e) of a failed request: of a transport error when there is no response
RequestFailure(prefix, r) ==
    IF r = NoReply THEN "ConnectError" ELSE FailureMessage(prefix, r)

----------------------------------------------------------------------------
(* The wall clock.                                                         *)

Tick ==
    /\ \E t \in (clock + 1)..MaxClock : OnGrid(t) /\ clock' = t
    /\ UNCHANGED <<tokenFile, createMode, pc, caller, tokens, token_data, ret,
                   hist, rpc, rret>>
    /\ UNCHANGED authSide

----------------------------------------------------------------------------
(* save_tokens(token_data), auth.py 151-161, one action per statement.     *)
(* It is entered with pc = "save_stamp" and leaves to SaveReturn or, when  *)
(* a statement raises, to SaveRaise; both depend on the caller.            *)

\* line 154: token_data["saved_at"] = int(time.time())
StampSavedAt(td, t) == Put(td, "saved_at", IntTime(t))

\* lines 155-156: the clock is read again for expires_at
StampExpiresAt(td, t) ==
    IF "expires_in" \in DOMAIN td
        THEN Put(td, "expires_at", IntTime(t) + td["expires_in"])
        ELSE td

\* line 158, open(TOKEN_FILE, "w"): an existing file is truncated and keeps its
\* mode, a missing one is created empty with the process's creation mode
OpenForWrite(f) ==
    [exists |-> TRUE, content |-> EmptyContent,
     mode |-> IF f.exists THEN f.mode ELSE createMode]

\* line 158, write and close: the serialised dict reaches the file
WriteContent(f, td) == [f EXCEPT !.content = JsonOf(td)]

\* line 160: os.chmod(TOKEN_FILE, 0o600)
Chmod(f) == [f EXCEPT !.mode = OwnerOnly]

Wrote(h, f) == [h EXCEPT !.wrote = h.wrote \/ f # tokenFile]

\* the caller's continuation after save_tokens returned
\*   get_valid_token line 209: return new_tokens.get("access_token")
\*   authenticate lines 439-443 / 349-353: return the token dict
SaveReturn(td) ==
    IF caller = "get_valid_token"
        THEN Ret("get_valid_token", FALSE, Get(td, "access_token", None), None, NoneDict)
        ELSE Ret(caller, FALSE, Get(td, "access_token", None), None, td)

\* (variant: authenticate returns the token dict although save_tokens raised)
SaveRaiseReturningTokens ==
    IF caller = "get_valid_token"
        THEN Ret("get_valid_token", FALSE, None, None, NoneDict)
        ELSE Ret(caller, FALSE, Get(token_data, "access_token", None), None, token_data)

\* the caller's except clause when save_tokens raised
\*   get_valid_token lines 210-212: return None
\*   authenticate lines 445-446 / 355-356: error kind token_exchange
SaveRaise ==
    IF caller = "get_valid_token"
        THEN Ret("get_valid_token", FALSE, None, None, NoneDict)
        ELSE Ret(caller, FALSE, None, "token_exchange", NoneDict)

SaveStampSavedAt ==
    /\ pc = "save_stamp"
    /\ token_data' = StampSavedAt(token_data, clock)
    /\ pc' = "save_expires"
    /\ UNCHANGED <<clock, tokenFile, createMode, caller, tokens, ret, hist, rpc, rret>>
    /\ UNCHANGED authSide

SaveStampExpiresAt ==
    /\ pc = "save_expires"
    /\ token_data' = StampExpiresAt(token_data, clock)
    /\ pc' = "save_open"
    /\ UNCHANGED <<clock, tokenFile, createMode, caller, tokens, ret, hist, rpc, rret>>
    /\ UNCHANGED authSide

\* write_text opens the file; the open may fail with OSError
SaveOpen ==
    /\ pc = "save_open"
    /\ \/ /\ tokenFile' = OpenForWrite(tokenFile)
          /\ hist' = Wrote(hist, tokenFile')
          /\ pc' = "save_write"
          /\ UNCHANGED ret
       \/ /\ ret' = SaveRaise
          /\ pc' = "idle"
          /\ UNCHANGED <<tokenFile, hist>>
    /\ UNCHANGED <<clock, createMode, caller, tokens, token_data, rpc, rret>>
    /\ UNCHANGED authSide

SaveWrite ==
    /\ pc = "save_write"
    /\ tokenFile' = IF tokenFile.exists
                        THEN WriteContent(tokenFile, token_data)
                        ELSE tokenFile   \* unlinked meanwhile: the path stays absent
    /\ hist' = Wrote(hist, tokenFile')
    /\ pc' = "save_chmod"
    /\ UNCHANGED <<clock, createMode, caller, tokens, token_data, ret, rpc, rret>>
    /\ UNCHANGED authSide

\* os.chmod raises FileNotFoundError when the file was removed meanwhile
SaveChmod ==
    /\ pc = "save_chmod"
    /\ IF tokenFile.exists
          THEN /\ tokenFile' = Chmod(tokenFile)
               /\ ret' = SaveReturn(token_data)
          ELSE /\ tokenFile' = tokenFile
               /\ ret' = SaveRaise
    /\ hist' = Wrote(hist, tokenFile')
    /\ pc' = "idle"
    /\ UNCHANGED <<clock, createMode, caller, tokens, token_data, rpc, rret>>
    /\ UNCHANGED authSide

----------------------------------------------------------------------------
(* get_valid_token(client_id), auth.py 182-215.                            *)

\* (variant: the buffer's boundary instant counted as expiring)
ExpiringInclusive(t, expires_at) == t >= (expires_at - ExpiryBuffer) * TicksPerSec

\* line 198: time.time() > (expires_at - 300), time.time() being t ticks
Expiring(t, expires_at) == t > (expires_at - ExpiryBuffer) * TicksPerSec

\* (variant: a record without expires_at is taken as not expiring)
ExpiresAtOfUndatedLater(t) == Get(t, "expires_at", MaxClock + ExpiryBuffer)

\* line 197: expires_at = tokens.get("expires_at", 0)
ExpiresAtOf(t) == Get(t, "expires_at", DefaultExpiresAt)

\* (variant: the response is saved as received)
MergeNothing(new_tokens, refresh_token) == new_tokens

\* lines 206-207: preserve the refresh token if the response has none
MergeRefreshToken(new_tokens, refresh_token) ==
    IF "refresh_token" \notin DOMAIN new_tokens
        THEN Put(new_tokens, "refresh_token", refresh_token)
        ELSE new_tokens

\* (variant: the stale record is deleted when the refresh fails)
DeleteOnRefreshFailure(f) == NoFile

\* lines 210-212: what the except clause does to the token file
OnRefreshFailure(f) == f

StartGetValidToken ==
    /\ pc = "idle"
    /\ pc' = "gvt_exists"
    /\ hist' = [NoHist EXCEPT !.before = tokenFile]
    /\ ret' = NoRet
    /\ tokens' = NoneDict
    /\ token_data' = NoneDict
    /\ caller' = "get_valid_token"
    /\ UNCHANGED <<clock, tokenFile, createMode, rpc, rret>>
    /\ UNCHANGED authSide

\* load_tokens line 166, then get_valid_token lines 193-194
GvtExists ==
    /\ pc = "gvt_exists"
    /\ IF tokenFile.exists
          THEN pc' = "gvt_read" /\ ret' = ret
          ELSE pc' = "idle" /\ ret' = Ret("get_valid_token", FALSE, None, None, NoneDict)
    /\ UNCHANGED <<clock, tokenFile, createMode, caller, tokens, token_data, hist, rpc, rret>>
    /\ UNCHANGED authSide

\* load_tokens lines 169-172 (a file removed since line 166 raises
\* FileNotFoundError, an IOError), then get_valid_token lines 193-194
GvtRead ==
    /\ pc = "gvt_read"
    /\ IF tokenFile.exists /\ LoadRaises(tokenFile.content)
          THEN /\ tokens' = tokens
               /\ pc' = "idle"
               /\ ret' = Ret("get_valid_token", TRUE, None, None, NoneDict)
          ELSE /\ tokens' = IF tokenFile.exists THEN JsonLoadsOrNone(tokenFile.content)
                                               ELSE NoneDict
               /\ IF NotTokens(tokens')
                     THEN pc' = "idle"
                          /\ ret' = Ret("get_valid_token", FALSE, None, None, NoneDict)
                     ELSE pc' = "gvt_check" /\ ret' = ret
    /\ UNCHANGED <<clock, tokenFile, createMode, caller, token_data, hist, rpc, rret>>
    /\ UNCHANGED authSide

\* lines 197-201 and 213-215: the expiry test and what follows without a request
\* (variant: a record that is not expiring is saved again before its token
\* is returned)
GvtCheckResaving ==
    /\ pc = "gvt_check"
    /\ IF GetRaises(tokens)
          THEN /\ pc' = "idle" /\ hist' = hist /\ token_data' = token_data
               /\ ret' = Ret("get_valid_token", TRUE, None, None, NoneDict)
          ELSE IF Expiring(clock, ExpiresAtOf(tokens))
          THEN /\ hist' = [hist EXCEPT !.now = clock] /\ token_data' = token_data
               /\ IF Truthy(Get(tokens, "refresh_token", None))
                     THEN pc' = "gvt_refresh" /\ ret' = ret
                     ELSE pc' = "idle"
                          /\ ret' = Ret("get_valid_token", FALSE, None, None, NoneDict)
          ELSE /\ hist' = [hist EXCEPT !.now = clock, !.saves = hist.saves + 1]
               /\ token_data' = tokens
               /\ pc' = "save_stamp" /\ ret' = ret
    /\ UNCHANGED <<clock, tokenFile, createMode, caller, tokens, rpc, rret>>
    /\ UNCHANGED authSide

GvtCheck ==
    /\ pc = "gvt_check"
    /\ hist' = IF GetRaises(tokens) THEN hist ELSE [hist EXCEPT !.now = clock]
    /\ IF GetRaises(tokens)
          THEN pc' = "idle" /\ ret' = Ret("get_valid_token", TRUE, None, None, NoneDict)
          ELSE IF Expiring(clock, ExpiresAtOf(tokens))
          THEN IF Truthy(Get(tokens, "refresh_token", None))
                  THEN pc' = "gvt_refresh" /\ ret' = ret
                  ELSE pc' = "idle"
                       /\ ret' = Ret("get_valid_token", FALSE, None, None, NoneDict)
          ELSE /\ pc' = "idle"
               /\ ret' = Ret("get_valid_token", FALSE,
                              Get(tokens, "access_token", None), None, NoneDict)
    /\ UNCHANGED <<clock, tokenFile, createMode, caller, tokens, token_data, rpc, rret>>
    /\ UNCHANGED authSide

\* lines 204-208 and 210-212: the refresh request and its two outcomes
GvtRefresh ==
    /\ pc = "gvt_refresh"
    /\ \/ \E r \in RefreshResponses :
            /\ token_data' = MergeRefreshToken(r, tokens["refresh_token"])
            /\ hist' = [hist EXCEPT !.refresh = "ok", !.response = r,
                                    !.saves = hist.saves + 1]
            /\ pc' = "save_stamp"
            /\ UNCHANGED <<tokenFile, ret>>
       \/ \E r \in ErrorResponses \cup {NoReply} :
          /\ tokenFile' = OnRefreshFailure(tokenFile)
          /\ hist' = Wrote([hist EXCEPT !.refresh = "failed", !.reply = r,
                              !.failure = RequestFailure("Token refresh failed", r)],
                           tokenFile')
          /\ ret' = Ret("get_valid_token", FALSE, None, None, NoneDict)
          /\ pc' = "idle"
          /\ UNCHANGED token_data
    /\ UNCHANGED <<clock, createMode, caller, tokens, rpc, rret>>
    /\ UNCHANGED authSide

----------------------------------------------------------------------------
(* A second invocation of the CLI running at the same time; it runs one    *)
(* command and exits: "token" and "status" call load_tokens (auth.py       *)
(* 164-172), "logout" calls clear_tokens (auth.py 175-179).                *)

\* done: load_tokens returned; existed: the file was there when it was read
\* raised: an exception left load_tokens
NoLoad == [done |-> FALSE, existed |-> FALSE, raised |-> FALSE, value |-> NoneDict]

\* load_tokens line 166
OtherLoadExists ==
    /\ rpc = "start"
    /\ IF tokenFile.exists
          THEN rpc' = "read" /\ rret' = rret
          ELSE rpc' = "exited"
               /\ rret' = [NoLoad EXCEPT !.done = TRUE]
    /\ UNCHANGED <<clock, tokenFile, createMode, pc, caller, tokens, token_data, ret, hist>>
    /\ UNCHANGED authSide

\* load_tokens lines 169-172
OtherLoadRead ==
    /\ rpc = "read"
    /\ rret' = [done |-> TRUE, existed |-> tokenFile.exists,
                raised |-> tokenFile.exists /\ LoadRaises(tokenFile.content),
                value |-> IF tokenFile.exists /\ ~LoadRaises(tokenFile.content)
                              THEN JsonLoadsOrNone(tokenFile.content)
                              ELSE NoneDict]
    /\ rpc' = "exited"
    /\ UNCHANGED <<clock, tokenFile, createMode, pc, caller, tokens, token_data, ret, hist>>
    /\ UNCHANGED authSide

\* clear_tokens lines 177-178
OtherClear ==
    /\ rpc = "start"
    /\ tokenFile.exists
    /\ tokenFile' = NoFile
    /\ rpc' = "exited"
    /\ UNCHANGED <<clock, createMode, pc, caller, tokens, token_data, ret, hist, rret>>
    /\ UNCHANGED authSide

----------------------------------------------------------------------------
(* The token exchange at the end of authenticate, auth.py 429-446, with    *)
(* the code in hand: the request, then save_tokens.                        *)

StartExchange ==
    /\ pc = "idle"
    /\ pc' = "auth_exchange"
    /\ hist' = [NoHist EXCEPT !.before = tokenFile]
    /\ ret' = NoRet
    /\ tokens' = NoneDict
    /\ token_data' = NoneDict
    /\ caller' = "authenticate"
    /\ UNCHANGED <<clock, tokenFile, createMode, rpc, rret>>
    /\ UNCHANGED authSide

\* exchange_code_for_tokens raising, auth.py 94-108: str(e) for a non-200
\* response, for a transport error raised by httpx, and for a body that
\* response.json() cannot decode
ExchangeFailures ==
    {RequestFailure("Token exchange failed", r) : r \in ErrorResponses \cup {NoReply}}

\* exchange_code_for_tokens lines 85-91: the form data of the request
ExchangeRequest(code, verifier) ==
    [grant_type |-> "authorization_code", client_id |-> "client_id",
     redirect_uri |-> "redirect_uri", code |-> code, code_verifier |-> verifier]

\* (variant: the message of the failure is replaced by a fixed text)
OnExchangeFailureFixedText(c, m) == ErrRet(c, "token_exchange", "Token exchange failed")

\* auth.py 445-446 / 355-356: except Exception as e -> token_exchange, str(e)
OnExchangeFailure(c, m) == ErrRet(c, "token_exchange", m)

\* (variant: the response is saved whatever its status)
AuthExchangeSavingAnyResponse ==
    /\ pc = "auth_exchange"
    /\ \/ \E r \in ExchangeResponses :
            /\ token_data' = r
            /\ hist' = [hist EXCEPT !.response = r, !.exchanged = hist.exchanged + 1,
                                    !.saves = hist.saves + 1,
                                    !.request = ExchangeRequest(cap.code, code_verifier.value)]
       \/ \E r \in ErrorResponses \cup {NoReply} :
          LET m == RequestFailure("Token exchange failed", r) IN
            /\ token_data' = [k \in {"error"} |-> m]
            /\ hist' = [hist EXCEPT !.exchanged = hist.exchanged + 1, !.failure = m,
                                    !.reply = r,
                                    !.saves = hist.saves + 1,
                                    !.request = ExchangeRequest(cap.code, code_verifier.value)]
    /\ pc' = "save_stamp"
    /\ UNCHANGED <<clock, tokenFile, createMode, caller, tokens, ret, rpc, rret>>
    /\ UNCHANGED authSide

\* auth.py 429-446 / 339-356: the request; on a 200-response save_tokens is
\* entered, on a failure the except clause returns
AuthExchange ==
    /\ pc = "auth_exchange"
    /\ \/ \E r \in ExchangeResponses :
            /\ token_data' = r
            /\ hist' = [hist EXCEPT !.response = r, !.exchanged = hist.exchanged + 1,
                                    !.saves = hist.saves + 1,
                                    !.request = ExchangeRequest(cap.code, code_verifier.value)]
            /\ pc' = "save_stamp"
            /\ UNCHANGED ret
       \/ \E r \in ErrorResponses \cup {NoReply} :
          LET m == RequestFailure("Token exchange failed", r) IN
            /\ hist' = [hist EXCEPT !.exchanged = hist.exchanged + 1, !.failure = m,
                                    !.reply = r,
                                    !.request = ExchangeRequest(cap.code, code_verifier.value)]
            /\ ret' = OnExchangeFailure(caller, m)
            /\ pc' = "idle"
            /\ UNCHANGED token_data
    /\ UNCHANGED <<clock, tokenFile, createMode, caller, tokens, rpc, rret>>
    /\ UNCHANGED authSide

----------------------------------------------------------------------------
(* generate_code_verifier(length), pkce.py 21-35.  A string is modelled by *)
(* its number of characters, the random bytes by their number.             *)

\* length: int = 64
DefaultLength == 64
\* the documented range of the length argument, "43-128"
MinLength == 43
MaxLength == 128
\* verifier[:128]
MaxChars == 128

Min(a, b) == IF a < b THEN a ELSE b

\* base64.urlsafe_b64encode(b): 4 characters for every 3 bytes begun, the
\* last group padded with "="
B64Len(nbytes) == 4 * ((nbytes + 2) \div 3)
\* number of "=" at the end of the encoding
B64Padding(nbytes) == (3 - (nbytes % 3)) % 3
\* line 34: urlsafe_b64encode(random_bytes).decode('utf-8').rstrip('=')
EncodeStripped(nbytes) == B64Len(nbytes) - B64Padding(nbytes)

\* (variant: the verifier is returned whole)
TruncateNot(nchars) == nchars

\* line 35: verifier[:128]
Truncate(nchars) == Min(nchars, MaxChars)

\* the strings secrets.token_bytes can lead to (two of them)
Verifiers == {"v1", "v2"}

\* at: "none" | "called" | "bytes" | "returned"; value: the verifier string
NoVerifier == [at |-> "none", length |-> 0, random_bytes |-> 0, verifier |-> 0,
               value |-> None]

\* (variant: the challenge is the verifier itself, not its hash)
GenerateCodeChallengePlain(v) == v

\* generate_code_challenge, pkce.py 38-52: base64url(sha256(verifier))
GenerateCodeChallenge(v) == "S256(" \o v \o ")"

\* the call as a whole, as generate_pkce_pair (pkce.py 72) makes it
GenerateCodeVerifier(length, v) ==
    [at |-> "returned", length |-> length, random_bytes |-> length,
     verifier |-> Truncate(EncodeStripped(length)), value |-> v]

\* line 32: random_bytes = secrets.token_bytes(length)
VerifierTokenBytes ==
    /\ code_verifier.at = "called"
    /\ \E v \in Verifiers :
          code_verifier' = [code_verifier EXCEPT !.at = "bytes", !.value = v,
                                                !.random_bytes = code_verifier.length]
    /\ UNCHANGED <<clock, tokenFile, createMode, pc, caller, tokens, token_data, ret,
                   hist, rpc, rret, state, cap, args_file, result_file, captured_url,
                   elapsed, chist, child>>

\* lines 34-35: encode, strip the padding, truncate, return
VerifierEncode ==
    /\ code_verifier.at = "bytes"
    /\ code_verifier' =
          [code_verifier EXCEPT !.at = "returned",
              !.verifier = Truncate(EncodeStripped(code_verifier.random_bytes))]
    /\ UNCHANGED <<clock, tokenFile, createMode, pc, caller, tokens, token_data, ret,
                   hist, rpc, rret, state, cap, args_file, result_file, captured_url,
                   elapsed, chist, child>>

----------------------------------------------------------------------------
(* Redirect URLs and other text the helper or the user may hand over.      *)

\* values generate_state can return
States == {"a", "b"}

\* longest query string, in parameters
MaxParams == 2

\* the timeout argument of capture_oauth_redirect, in poll intervals of 0.5 s
Timeout == 2

\* one "key=value" of a query string, the key as written (possibly quoted)
Param(k, v) == [k |-> k, v |-> v]
Params ==
    {Param("code", v) : v \in {"", "a"}} \cup {Param("c%6Fde", "a")}
    \cup {Param("state", v) : v \in States}
    \cup {Param("error", v) : v \in {"", "access_denied"}}
    \cup {Param("error_description", "d")}
Queries == UNION {[1..n -> Params] : n \in 0..MaxParams}

\* a text: a URL with query q; the empty string (what strip() leaves of a
\* blank file); a string urlparse rejects with ValueError; a file content
\* read_text raises on (bytes that are no UTF-8: UnicodeDecodeError)
Url(q) == [kind |-> "url", q |-> q]
Blank == [kind |-> "blank", q |-> << >>]
Malformed == [kind |-> "malformed", q |-> << >>]
Unreadable == [kind |-> "unreadable", q |-> << >>]
NoText == [kind |-> "None", q |-> << >>]
Texts == {Url(q) : q \in Queries} \cup {Blank, Malformed, Unreadable}

\* "code=" in captured_url
ContainsCodeEq(t) == t.kind = "url" /\ \E i \in DOMAIN t.q : t.q[i].k = "code"

\* not captured_url
Falsy(t) == t.kind \in {"None", "blank"}

\* parse_qs unquotes the names
Unquote(k) == IF k = "c%6Fde" THEN "code" ELSE k

\* parse_qs(query), each name mapped to its first value (params[name][0]);
\* parameters with a blank value are dropped (keep_blank_values=False)
ParseQs(q) ==
    LET kept == {i \in DOMAIN q : q[i].v # ""}
        names == {Unquote(q[i].k) : i \in kept}
        first(n) == CHOOSE i \in kept :
                        /\ Unquote(q[i].k) = n
                        /\ \A j \in kept : Unquote(q[j].k) = n => i <= j
    IN  [n \in names |-> q[first(n)].v]

\* the triple capture_oauth_redirect returns, error being None or the
\* dict's "error", desc its "error_description"
CapRet(code, st, error, desc) ==
    [code |-> code, state |-> st, error |-> error, desc |-> desc]
NoCap == CapRet(None, None, None, None)
CapError(error, desc) == CapRet(None, None, error, desc)

\* (variant: the code is looked at before the error parameter)
ParseCodeFirst(t) ==
    LET params == ParseQs(t.q)
    IN  IF "code" \in DOMAIN params
            THEN CapRet(params["code"], Get(params, "state", None), None, None)
        ELSE IF "error" \in DOMAIN params
            THEN CapError(params["error"], Get(params, "error_description", "Unknown error"))
        ELSE CapError("no_code", "No authorization code in redirect URL")

\* (variant: the failure carries the default text, not the redirect's)
ParseCapturedDefaultText(t) ==
    LET params == ParseQs(t.q)
    IN  IF "error" \in DOMAIN params
            THEN CapError(params["error"], "Unknown error")
        ELSE IF "code" \notin DOMAIN params
            THEN CapError("no_code", "No authorization code in redirect URL")
        ELSE CapRet(params["code"], Get(params, "state", None), None, None)

\* electron_auth.py 411-432: the result for a captured URL urlparse accepts
ParseCaptured(t) ==
    LET params == ParseQs(t.q)
    IN  IF "error" \in DOMAIN params
            THEN CapError(params["error"], Get(params, "error_description", "Unknown error"))
        ELSE IF "code" \notin DOMAIN params
            THEN CapError("no_code", "No authorization code in redirect URL")
        ELSE CapRet(params["code"], Get(params, "state", None), None, None)

----------------------------------------------------------------------------
(* The Electron helper: a black box that may capture one redirect, write   *)
(* it to result.txt, print it after the CAPTURED_URL: marker, and exit, in *)
(* any order and at any time while it runs.  SIGTERM may make it exit;     *)
(* SIGKILL ends it at once.                                                *)

NoChild == [st |-> "none", url |-> NoText, wrote |-> FALSE, stdout |-> NoText,
            sigterm |-> FALSE]
NoResult == [exists |-> FALSE, text |-> NoText]

\* ghost record of one capture:
\*   argsWritten    args.json was written by this call
\*   launched       Popen returned a process
\*   loopEnd        how polling ended: "code" | "exit" | "timeout" | "raise"
\*   aliveAtCleanup the child was running at line 368
\*   termSent, killSent   process.terminate() / process.kill() were called
\*   lateWrite      the helper wrote result.txt after the last check of the file
\*   returned       capture_oauth_redirect has returned
\*   notReady       check_electron_ready() found no usable helper
\*   args           what was written to args.json
\*   stale          a result file was there when line 248 looked for one
NoCapHist == [argsWritten |-> FALSE, launched |-> FALSE, loopEnd |-> "none",
              aliveAtCleanup |-> FALSE, termSent |-> FALSE, killSent |-> FALSE,
              lateWrite |-> FALSE, returned |-> FALSE, notReady |-> FALSE,
              args |-> NoneDict, stale |-> FALSE]

\* what the capture and the helper leave alone
tokenSide == <<clock, tokenFile, createMode, tokens, token_data, hist, rpc, rret,
               code_verifier>>

\* polling has ended, or ends at the next evaluation of the loop condition: the
\* result file will not be checked again
AfterPolling ==
    \/ pc \in {"cap_cleanup", "cap_wait", "cap_unlink", "cap_result"}
    \/ pc = "cap_loop" /\ elapsed >= Timeout

ChildCapture ==
    /\ child.st = "running" /\ child.url = NoText
    /\ \E u \in Texts : child' = [child EXCEPT !.url = u]
    /\ UNCHANGED <<tokenSide, pc, caller, ret, state, cap, args_file, result_file,
                   captured_url, elapsed, chist>>

ChildWriteResult ==
    /\ child.st = "running" /\ child.url # NoText /\ ~child.wrote
    /\ child' = [child EXCEPT !.wrote = TRUE]
    /\ result_file' = [exists |-> TRUE, text |-> child.url]
    /\ chist' = [chist EXCEPT !.lateWrite = chist.lateWrite \/ AfterPolling]
    /\ UNCHANGED <<tokenSide, pc, caller, ret, state, cap, args_file,
                   captured_url, elapsed>>

ChildPrint ==
    /\ child.st = "running" /\ child.stdout = NoText
    /\ child.url \notin {NoText, Unreadable}
    /\ child' = [child EXCEPT !.stdout = child.url]
    /\ UNCHANGED <<tokenSide, pc, caller, ret, state, cap, args_file, result_file,
                   captured_url, elapsed, chist>>

ChildExit ==
    /\ child.st = "running"
    /\ child' = [child EXCEPT !.st = "exited"]
    /\ UNCHANGED <<tokenSide, pc, caller, ret, state, cap, args_file, result_file,
                   captured_url, elapsed, chist>>

----------------------------------------------------------------------------
(* capture_oauth_redirect(url_scheme, auth_url, timeout, verbose),         *)
(* electron_auth.py 172-443.                                               *)

\* a return statement of capture_oauth_redirect: back in authenticate, line 409
CapReturns(c) ==
    /\ cap' = c
    /\ pc' = "auth_validate"

\* lines 439-443: except Exception -> unexpected_error
CapUnexpected == CapError("unexpected_error", "str(e)")

\* check_electron_ready() lines 147-169: the message when no packaged app is
\* found for the platform
NotReadyMessages ==
    {"electron-helper directory not found",
     "package.json not found in electron-helper/",
     "Electron app not packaged. Run: cd electron-helper && npm install && npm run package"}

\* lines 198-204: check_electron_ready()
CapCheckReady ==
    /\ pc = "cap_check"
    /\ \/ /\ pc' = "cap_mkdir"
          /\ UNCHANGED <<cap, chist>>
       \/ \E message \in NotReadyMessages :
          /\ CapReturns(CapError("electron_not_ready", message))
          /\ chist' = [chist EXCEPT !.returned = TRUE, !.notReady = TRUE]
    /\ UNCHANGED <<tokenSide, caller, ret, state, args_file, result_file,
                   captured_url, elapsed, child>>

\* lines 220-227: DATA_DIR.mkdir / chmod
CapMkdir ==
    /\ pc = "cap_mkdir"
    /\ \/ /\ pc' = "cap_write_args"
          /\ UNCHANGED <<cap, chist>>
       \/ /\ CapReturns(CapError("dir_creation_failed", "Failed to create data directory"))
          /\ chist' = [chist EXCEPT !.returned = TRUE]
    /\ UNCHANGED <<tokenSide, caller, ret, state, args_file, result_file,
                   captured_url, elapsed, child>>

\* lines 233-236: the content of args.json
ArgsJson(scheme_only, auth_url) == [urlScheme |-> scheme_only, authUrl |-> auth_url]

\* lines 233-245: args.json is written
CapWriteArgs ==
    /\ pc = "cap_write_args"
    /\ \/ /\ args_file' = TRUE
          /\ chist' = [chist EXCEPT !.argsWritten = TRUE,
                                    !.args = ArgsJson("scheme", hist.auth_url)]
          /\ pc' = "cap_clean"
          /\ UNCHANGED cap
       \/ /\ CapReturns(CapError("config_write_failed", "Failed to write config file"))
          /\ chist' = [chist EXCEPT !.returned = TRUE]
          /\ UNCHANGED args_file
    /\ UNCHANGED <<tokenSide, caller, ret, state, result_file,
                   captured_url, elapsed, child>>

\* (variant: an existing result file is left where it is)
CapCleanResultKeeping ==
    /\ pc = "cap_clean"
    /\ result_file' = result_file
    /\ chist' = [chist EXCEPT !.stale = result_file.exists]
    /\ pc' = "cap_find"
    /\ UNCHANGED <<tokenSide, caller, ret, state, cap, args_file,
                   captured_url, elapsed, child>>

\* lines 248-249: a result file of a previous run is removed
CapCleanResult ==
    /\ pc = "cap_clean"
    /\ result_file' = NoResult
    /\ chist' = [chist EXCEPT !.stale = result_file.exists]
    /\ pc' = "cap_find"
    /\ UNCHANGED <<tokenSide, caller, ret, state, cap, args_file,
                   captured_url, elapsed, child>>

\* lines 256-261: find_packaged_app() once more
CapFindApp ==
    /\ pc = "cap_find"
    /\ \/ /\ pc' = "cap_launch"
          /\ UNCHANGED <<cap, chist>>
       \/ /\ CapReturns(CapError("app_not_found", "Could not find packaged Electron app"))
          /\ chist' = [chist EXCEPT !.returned = TRUE]
    /\ UNCHANGED <<tokenSide, caller, ret, state, args_file, result_file,
                   captured_url, elapsed, child>>

\* lines 299-304 with the except clauses of lines 434-443: Popen returns a
\* process, raises FileNotFoundError, or raises another OSError
CapLaunch ==
    /\ pc = "cap_launch"
    /\ \/ /\ child' = [NoChild EXCEPT !.st = "running"]
          /\ chist' = [chist EXCEPT !.launched = TRUE]
          /\ pc' = "cap_startup"
          /\ UNCHANGED cap
       \/ /\ CapReturns(CapError("executable_not_found", "Could not find executable"))
          /\ chist' = [chist EXCEPT !.returned = TRUE]
          /\ UNCHANGED child
       \/ /\ CapReturns(CapUnexpected)
          /\ chist' = [chist EXCEPT !.returned = TRUE]
          /\ UNCHANGED child
    /\ UNCHANGED <<tokenSide, caller, ret, state, args_file, result_file,
                   captured_url, elapsed>>

\* lines 307-323: after sleep(1), an exited helper is a crash; else polling starts
CapStartupCheck ==
    /\ pc = "cap_startup"
    /\ IF child.st # "running"
          THEN /\ CapReturns(CapError("electron_crashed", "Electron exited immediately"))
               /\ chist' = [chist EXCEPT !.returned = TRUE]
          ELSE /\ pc' = "cap_loop"
               /\ UNCHANGED <<cap, chist>>
    /\ elapsed' = 0
    /\ captured_url' = NoText
    /\ UNCHANGED <<tokenSide, caller, ret, state, args_file, result_file, child>>

\* line 326: while (time.time() - start_time) < timeout
\* (variant: the loop condition never ends the loop)
CapLoopNoTimeout ==
    /\ pc = "cap_loop"
    /\ pc' = "cap_poll_file" /\ chist' = chist
    /\ UNCHANGED <<tokenSide, caller, ret, state, cap, args_file, result_file,
                   captured_url, elapsed, child>>

CapLoop ==
    /\ pc = "cap_loop"
    /\ IF elapsed < Timeout
          THEN pc' = "cap_poll_file" /\ chist' = chist
          ELSE pc' = "cap_cleanup" /\ chist' = [chist EXCEPT !.loopEnd = "timeout"]
    /\ UNCHANGED <<tokenSide, caller, ret, state, cap, args_file, result_file,
                   captured_url, elapsed, child>>

\* (variant: any non-empty file content ends polling)
StopsPollingAlways(t) == ~Falsy(t)

\* line 339: the file content that ends polling
StopsPolling(t) == ContainsCodeEq(t)

\* lines 337-341: the result file is checked; read_text may raise (439-443)
CapPollFile ==
    /\ pc = "cap_poll_file"
    /\ IF ~result_file.exists
          THEN /\ pc' = "cap_poll_proc"
               /\ UNCHANGED <<cap, captured_url, chist>>
          ELSE IF result_file.text = Unreadable
          THEN /\ CapReturns(CapUnexpected)
               /\ chist' = [chist EXCEPT !.loopEnd = "raise", !.returned = TRUE]
               /\ UNCHANGED captured_url
          ELSE /\ captured_url' = result_file.text
               /\ IF StopsPolling(result_file.text)
                     THEN pc' = "cap_cleanup" /\ chist' = [chist EXCEPT !.loopEnd = "code"]
                     ELSE pc' = "cap_poll_proc" /\ chist' = chist
               /\ UNCHANGED cap
    /\ UNCHANGED <<tokenSide, caller, ret, state, args_file, result_file,
                   elapsed, child>>

\* line 353-357: the CAPTURED_URL: line of the helper's stdout, if any
FromStdout(out, url) == IF out # NoText THEN out ELSE url

\* (variant: an exited helper that left no URL does not end polling)
CapPollProcWaiting ==
    /\ pc = "cap_poll_proc"
    /\ IF child.st # "running" /\ ~Falsy(FromStdout(child.stdout, captured_url))
          THEN /\ captured_url' = FromStdout(child.stdout, captured_url)
               /\ pc' = "cap_cleanup"
               /\ chist' = [chist EXCEPT !.loopEnd = "exit"]
               /\ UNCHANGED elapsed
          ELSE /\ \E e \in (elapsed + 1)..Timeout : elapsed' = e
               /\ pc' = "cap_loop"
               /\ UNCHANGED <<captured_url, chist>>
    /\ UNCHANGED <<tokenSide, caller, ret, state, cap, args_file, result_file, child>>

\* lines 344-365: an exited helper ends polling, after its stdout was
\* searched for the marker line; else sleep(0.5)
CapPollProc ==
    /\ pc = "cap_poll_proc"
    /\ IF child.st # "running"
          THEN /\ captured_url' = FromStdout(child.stdout, captured_url)
               /\ pc' = "cap_cleanup"
               /\ chist' = [chist EXCEPT !.loopEnd = "exit"]
               /\ UNCHANGED elapsed
          ELSE /\ \E e \in (elapsed + 1)..Timeout : elapsed' = e
               /\ pc' = "cap_loop"
               /\ UNCHANGED <<captured_url, chist>>
    /\ UNCHANGED <<tokenSide, caller, ret, state, cap, args_file, result_file, child>>

\* lines 368-369: a helper still running is sent SIGTERM
CapCleanup ==
    /\ pc = "cap_cleanup"
    /\ IF child.st = "running"
          THEN /\ child' = [child EXCEPT !.sigterm = TRUE]
               /\ chist' = [chist EXCEPT !.aliveAtCleanup = TRUE, !.termSent = TRUE]
               /\ pc' = "cap_wait"
          ELSE /\ pc' = "cap_unlink"
               /\ UNCHANGED <<child, chist>>
    /\ UNCHANGED <<tokenSide, caller, ret, state, cap, args_file, result_file,
                   captured_url, elapsed>>

\* (variant: no kill after the grace period)
CapWaitNoKill ==
    /\ pc = "cap_wait"
    /\ pc' = "cap_unlink"
    /\ UNCHANGED <<tokenSide, caller, ret, state, cap, args_file, result_file,
                   captured_url, elapsed, chist, child>>

\* lines 370-373: wait(timeout=5) returns when the helper has exited; when it
\* has not after the grace period, process.kill()
CapWait ==
    /\ pc = "cap_wait"
    /\ IF child.st = "running"
          THEN /\ child' = [child EXCEPT !.st = "killed"]
               /\ chist' = [chist EXCEPT !.killSent = TRUE]
          ELSE UNCHANGED <<child, chist>>
    /\ pc' = "cap_unlink"
    /\ UNCHANGED <<tokenSide, caller, ret, state, cap, args_file, result_file,
                   captured_url, elapsed>>

\* (variant: the result file is read once more before it is removed)
CapUnlinkRereading ==
    /\ pc = "cap_unlink"
    /\ captured_url' = IF result_file.exists /\ result_file.text # Unreadable
                           THEN result_file.text ELSE captured_url
    /\ result_file' = NoResult
    /\ args_file' = FALSE
    /\ pc' = "cap_result"
    /\ UNCHANGED <<tokenSide, caller, ret, state, cap, elapsed, chist, child>>

\* lines 376-379: the handshake files are removed
CapUnlink ==
    /\ pc = "cap_unlink"
    /\ result_file' = NoResult
    /\ args_file' = FALSE
    /\ pc' = "cap_result"
    /\ UNCHANGED <<tokenSide, caller, ret, state, cap, captured_url, elapsed,
                   chist, child>>

\* lines 381-432: no URL is no_redirect; urlparse raising ValueError is
\* caught at 439-443; else the URL is parsed
CaptureResult(url) ==
    IF Falsy(url)
        THEN CapError("no_redirect", "Did not receive redirect within timeout")
    ELSE IF url = Malformed THEN CapUnexpected
    ELSE ParseCaptured(url)

CapResult ==
    /\ pc = "cap_result"
    /\ CapReturns(CaptureResult(captured_url))
    /\ chist' = [chist EXCEPT !.returned = TRUE]
    /\ UNCHANGED <<tokenSide, caller, ret, state, args_file, result_file,
                   captured_url, elapsed, child>>

----------------------------------------------------------------------------
(* authenticate and authenticate_headless, auth.py 242-446.                *)

MismatchText == "State parameter mismatch - possible CSRF attack. Authentication aborted."

\* build_auth_url, auth.py 52-62: the query of the authorization URL
BuildAuthUrl(code_challenge, st) ==
    [client_id |-> "client_id", redirect_uri |-> "redirect_uri", scope |-> "scopes",
     response_type |-> "code", state |-> st, code_challenge |-> code_challenge,
     code_challenge_method |-> "S256"]

\* auth.py 382-393: automatic capture was chosen; PKCE parameters generated
StartAuthenticate ==
    /\ pc = "idle" /\ caller = "none"
    /\ \E st \in States : state' = st
    /\ caller' = "authenticate"
    /\ pc' = "cap_check"
    /\ \E v \in Verifiers :
          /\ code_verifier' = GenerateCodeVerifier(DefaultLength, v)
          /\ hist' = [NoHist EXCEPT !.before = tokenFile,
                         !.auth_url = BuildAuthUrl(GenerateCodeChallenge(v), state')]
    /\ UNCHANGED <<clock, tokenFile, createMode, tokens, token_data, ret, rpc, rret,
                   cap, args_file, result_file, captured_url, elapsed, chist, child>>

\* auth.py 382-387 and 266-290: manual mode was chosen (forced or no display)
StartHeadless ==
    /\ pc = "idle" /\ caller = "none"
    /\ \E st \in States : state' = st
    /\ caller' = "authenticate_headless"
    /\ pc' = "hl_paste"
    /\ \E v \in Verifiers :
          /\ code_verifier' = GenerateCodeVerifier(DefaultLength, v)
          /\ hist' = [NoHist EXCEPT !.before = tokenFile,
                         !.auth_url = BuildAuthUrl(GenerateCodeChallenge(v), state')]
    /\ UNCHANGED <<clock, tokenFile, createMode, tokens, token_data, ret, rpc, rret,
                   cap, args_file, result_file, captured_url, elapsed, chist, child>>

\* (variant: the state is compared only when the redirect has one)
ValidateIfStatePresent(c, st) ==
    IF c.error # None THEN c
    ELSE IF c.state # None /\ c.state # st THEN CapError("state_mismatch", MismatchText)
    ELSE IF ~Truthy(c.code) THEN CapError("no_code", "No authorization code received")
    ELSE c

\* (variant: the state is compared before the error is looked at)
ValidateStateFirst(c, st) ==
    IF c.state # st THEN CapError("state_mismatch", MismatchText)
    ELSE IF c.error # None THEN c
    ELSE IF ~Truthy(c.code) THEN CapError("no_code", "No authorization code received")
    ELSE c

\* auth.py 409-419: the checks on capture_oauth_redirect's triple; the
\* result is the error to return, or the triple itself to go on with
Validate(c, st) ==
    IF c.error # None THEN c
    ELSE IF c.state # st THEN CapError("state_mismatch", MismatchText)
    ELSE IF ~Truthy(c.code) THEN CapError("no_code", "No authorization code received")
    ELSE c

AuthValidate ==
    /\ pc = "auth_validate"
    /\ LET v == Validate(cap, state)
       IN  IF v.error # None
               THEN pc' = "idle" /\ ret' = ErrRet(caller, v.error, v.desc)
               ELSE pc' = "auth_exchange" /\ ret' = ret
    /\ UNCHANGED <<tokenSide, caller, state, cap, args_file, result_file,
                   captured_url, elapsed, chist, child>>

\* (variant: the state is compared before error and code are looked at)
HeadlessParseStateFirst(t, st) ==
    IF Falsy(t) THEN CapError("no_input", "No redirect URL provided")
    ELSE IF t = Malformed THEN CapError("parse_error", "Failed to parse redirect URL")
    ELSE LET params == ParseQs(t.q)
         IN  IF Get(params, "state", None) # st
                 THEN CapError("state_mismatch", MismatchText)
             ELSE IF "error" \in DOMAIN params
                 THEN CapError(params["error"],
                               Get(params, "error_description", "Authorization denied"))
             ELSE IF "code" \notin DOMAIN params
                 THEN CapError("no_code", "No authorization code found in the URL.")
             ELSE CapRet(params["code"], params["state"], None, None)

\* auth.py 292-334: the checks on the pasted text
HeadlessParse(t, st) ==
    IF Falsy(t) THEN CapError("no_input", "No redirect URL provided")
    ELSE IF t = Malformed THEN CapError("parse_error", "Failed to parse redirect URL")
    ELSE LET params == ParseQs(t.q)
         IN  IF "error" \in DOMAIN params
                 THEN CapError(params["error"],
                               Get(params, "error_description", "Authorization denied"))
             ELSE IF "code" \notin DOMAIN params
                 THEN CapError("no_code", "No authorization code found in the URL.")
             ELSE IF Get(params, "state", None) # st
                 THEN CapError("state_mismatch", MismatchText)
             ELSE CapRet(params["code"], params["state"], None, None)

\* auth.py 290-334: the user pastes some text
HeadlessPaste ==
    /\ pc = "hl_paste"
    /\ \E t \in Texts \ {Unreadable} :
          /\ captured_url' = t
          /\ cap' = HeadlessParse(t, state)
          /\ IF cap'.error # None
                THEN pc' = "idle" /\ ret' = ErrRet(caller, cap'.error, cap'.desc)
                ELSE pc' = "auth_exchange" /\ ret' = ret
    /\ UNCHANGED <<tokenSide, caller, state, args_file, result_file,
                   elapsed, chist, child>>

----------------------------------------------------------------------------
(* Initial states.                                                         *)

\* SpecToken: no token file yet, no authentication attempt
InitToken ==
    /\ clock = 0
    /\ tokenFile = NoFile
    /\ createMode \in {"0644", "0600"}
    /\ pc = "idle"
    /\ caller = "none"
    /\ tokens = NoneDict
    /\ token_data = NoneDict
    /\ ret = NoRet
    /\ hist = NoHist
    /\ rpc = "start"
    /\ rret = NoLoad
    /\ state = None
    /\ cap = NoCap
    /\ args_file = FALSE
    /\ result_file = NoResult
    /\ captured_url = NoText
    /\ elapsed = 0
    /\ chist = NoCapHist
    /\ child = NoChild
    /\ code_verifier = NoVerifier

\* a token file an earlier login left
OldTokenFile ==
    [exists |-> TRUE, mode |-> OwnerOnly,
     content |-> JsonOf(StampExpiresAt(StampSavedAt(
                     Put(Put([k \in {"access_token"} |-> "AT0"], "refresh_token", "RT0"),
                         "expires_in", 400), 0), 0))]

\* result.txt left by an earlier run that returned without cleaning up
StaleResult == [exists |-> TRUE, text |-> Url(<<Param("code", "a"), Param("state", "a")>>)]

\* Spec: one authentication attempt, started with or without a token file, and
\* with or without handshake files of an earlier run
Init ==
    /\ clock = 0
    /\ tokenFile \in {NoFile, OldTokenFile}
    /\ createMode = "0644"
    /\ pc = "idle"
    /\ caller = "none"
    /\ tokens = NoneDict
    /\ token_data = NoneDict
    /\ ret = NoRet
    /\ hist = NoHist
    /\ rpc = "exited"
    /\ rret = NoLoad
    /\ state = None
    /\ cap = NoCap
    /\ args_file = FALSE
    /\ result_file \in {NoResult, StaleResult}
    /\ captured_url = NoText
    /\ elapsed = 0
    /\ chist = NoCapHist
    /\ child = NoChild
    /\ code_verifier = NoVerifier

\* a token file saved from a response without expires_in: no expires_at
UndatedTokenFile ==
    [exists |-> TRUE, mode |-> OwnerOnly,
     content |-> JsonOf(StampSavedAt(
                     Put([k \in {"access_token"} |-> "AT0"], "refresh_token", "RT0"), 0))]

\* what may be at TOKEN_FILE when a command starts: nothing, a record the
\* program saved, or a file something else wrote or damaged
StoredFiles ==
    {NoFile, OldTokenFile, UndatedTokenFile}
    \cup {[exists |-> TRUE, mode |-> OwnerOnly, content |-> c] :
             c \in {JsonOf([k \in {} |-> None]), EmptyContent, InvalidJson,
                    Undecodable, JsonArray, JsonNull}}

\* SpecLoad: the commands reading the token file, whatever it holds
InitLoad ==
    /\ clock = 0
    /\ tokenFile \in StoredFiles
    /\ createMode = "0644"
    /\ pc = "idle"
    /\ caller = "none"
    /\ tokens = NoneDict
    /\ token_data = NoneDict
    /\ ret = NoRet
    /\ hist = NoHist
    /\ rpc = "start"
    /\ rret = NoLoad
    /\ state = None
    /\ cap = NoCap
    /\ args_file = FALSE
    /\ result_file = NoResult
    /\ captured_url = NoText
    /\ elapsed = 0
    /\ chist = NoCapHist
    /\ child = NoChild
    /\ code_verifier = NoVerifier

NextLoad ==
    \/ StartGetValidToken \/ GvtExists \/ GvtRead \/ GvtCheck \/ GvtRefresh
    \/ SaveStampSavedAt \/ SaveStampExpiresAt \/ SaveOpen \/ SaveWrite \/ SaveChmod
    \/ OtherLoadExists \/ OtherLoadRead \/ OtherClear

SpecLoad == InitLoad /\ [][NextLoad]_vars

\* SpecPkce: generate_code_verifier called with a length of the documented
\* range (the default among them)
InitPkce ==
    /\ clock = 0
    /\ tokenFile = NoFile
    /\ createMode = "0644"
    /\ pc = "idle"
    /\ caller = "none"
    /\ tokens = NoneDict
    /\ token_data = NoneDict
    /\ ret = NoRet
    /\ hist = NoHist
    /\ rpc = "exited"
    /\ rret = NoLoad
    /\ state = None
    /\ cap = NoCap
    /\ args_file = FALSE
    /\ result_file = NoResult
    /\ captured_url = NoText
    /\ elapsed = 0
    /\ chist = NoCapHist
    /\ child = NoChild
    /\ \E length \in MinLength..MaxLength :
          code_verifier = [NoVerifier EXCEPT !.at = "called", !.length = length]

NextPkce == VerifierTokenBytes \/ VerifierEncode

SpecPkce == InitPkce /\ [][NextPkce]_vars

NextToken ==
    \/ Tick
    \/ StartGetValidToken \/ GvtExists \/ GvtRead \/ GvtCheck \/ GvtRefresh
    \/ SaveStampSavedAt \/ SaveStampExpiresAt \/ SaveOpen \/ SaveWrite \/ SaveChmod
    \/ StartExchange \/ AuthExchange
    \/ OtherLoadExists \/ OtherLoadRead \/ OtherClear

SpecToken == InitToken /\ [][NextToken]_vars

Next ==
    \/ StartAuthenticate \/ StartHeadless \/ HeadlessPaste
    \/ CapCheckReady \/ CapMkdir \/ CapWriteArgs \/ CapCleanResult \/ CapFindApp
    \/ CapLaunch \/ CapStartupCheck \/ CapLoop \/ CapPollFile \/ CapPollProc
    \/ CapCleanup \/ CapWait \/ CapUnlink \/ CapResult
    \/ ChildCapture \/ ChildWriteResult \/ ChildPrint \/ ChildExit
    \/ AuthValidate \/ AuthExchange
    \/ SaveStampSavedAt \/ SaveStampExpiresAt \/ SaveOpen \/ SaveWrite \/ SaveChmod

Spec == Init /\ [][Next]_vars

\* the steps of capture_oauth_redirect itself
CaptureSteps ==
    \/ CapCheckReady \/ CapMkdir \/ CapWriteArgs \/ CapCleanResult \/ CapFindApp
    \/ CapLaunch \/ CapStartupCheck \/ CapLoop \/ CapPollFile \/ CapPollProc
    \/ CapCleanup \/ CapWait \/ CapUnlink \/ CapResult

\* authenticate is about to call capture_oauth_redirect (auth.py 402)
InitCapture ==
    /\ clock = 0
    /\ tokenFile = NoFile
    /\ createMode = "0644"
    /\ pc = "cap_check"
    /\ caller = "authenticate"
    /\ tokens = NoneDict
    /\ token_data = NoneDict
    /\ ret = NoRet
    /\ \E st \in States :
          /\ state = st
          /\ hist = [NoHist EXCEPT
                        !.auth_url = BuildAuthUrl(GenerateCodeChallenge("v1"), st)]
    /\ rpc = "exited"
    /\ rret = NoLoad
    /\ cap = NoCap
    /\ args_file = FALSE
    /\ result_file \in {NoResult, StaleResult}
    /\ captured_url = NoText
    /\ elapsed = 0
    /\ chist = NoCapHist
    /\ child = NoChild
    /\ code_verifier = GenerateCodeVerifier(DefaultLength, "v1")

NextCapture ==
    \/ CaptureSteps
    \/ ChildCapture \/ ChildWriteResult \/ ChildPrint \/ ChildExit

\* SpecCapture: one call of capture_oauth_redirect.  The CLI process keeps
\* running (its sleeps and waits are bounded); the helper owes nothing.
SpecCapture == InitCapture /\ [][NextCapture]_vars /\ WF_vars(CaptureSteps)

----------------------------------------------------------------------------
(* Properties of an authentication attempt and of the capture (Spec).      *)

Authenticating == caller \in {"authenticate", "authenticate_headless"}

\* the redirect handed over (captured, or pasted) carries a code and no error,
\* and its state parameter is missing or not the generated one
RedirectWithForeignState ==
    /\ Authenticating
    /\ captured_url.kind = "url"
    /\ "code" \in DOMAIN ParseQs(captured_url.q)
    /\ "error" \notin DOMAIN ParseQs(captured_url.q)
    /\ Get(ParseQs(captured_url.q), "state", None) # state

\* C1: in authenticate and in authenticate_headless, a redirect with a code and
\* no error whose state differs from the generated one (or is absent) gives
\* state_mismatch; the token exchange is never invoked and nothing is saved.
C1_StateMismatchBlocksExchange ==
    RedirectWithForeignState =>
        /\ pc \notin {"auth_exchange", "save_stamp", "save_expires", "save_open",
                      "save_write", "save_chmod"}
        /\ hist.exchanged = 0 /\ hist.saves = 0
        /\ ~hist.wrote /\ tokenFile = hist.before
        /\ pc = "idle" => (ret.error = "state_mismatch" /\ ret.token = None)

\* the automatic path returned state_mismatch for a redirect without state
C1_Witness ==
    /\ RedirectWithForeignState /\ caller = "authenticate" /\ pc = "idle"
    /\ "state" \notin DOMAIN ParseQs(captured_url.q)
    /\ ret.error = "state_mismatch"

\* C2: after capture_oauth_redirect returns, on every path taken after
\* args.json was written, the handshake directory holds neither args.json nor
\* result.txt.
C2_HandshakeFilesRemoved ==
    (chist.returned /\ chist.argsWritten) => (~args_file /\ ~result_file.exists)

\* polling ended by timeout with the helper still running, and no result file
\* had appeared while the file was still being checked
TimedOutWithoutResult ==
    /\ chist.loopEnd = "timeout" /\ chist.aliveAtCleanup
    /\ ~child.wrote \/ chist.lateWrite

\* C3: if no result file appears and the helper does not exit before the
\* timeout, capture_oauth_redirect terminates it (SIGTERM, then SIGKILL when it
\* has not exited after the grace period) and returns no_redirect.
C3_TimeoutTerminatesAndNoRedirect ==
    TimedOutWithoutResult =>
        /\ chist.termSent /\ child.sigterm
        /\ chist.killSent <=> child.st = "killed"
        /\ pc \in {"cap_unlink", "cap_result", "auth_validate", "idle"} =>
              child.st \in {"exited", "killed"}
        /\ chist.returned => cap = CapError("no_redirect", "Did not receive redirect within timeout")

\* the helper ignored SIGTERM and was killed
C3_Witness ==
    /\ TimedOutWithoutResult /\ chist.returned /\ ~child.wrote
    /\ chist.killSent /\ child.st = "killed"
    /\ cap.error = "no_redirect"

\* C4: once polling has ended by timeout, no result is accepted: a result file
\* or marker line written after the last check of the file never makes
\* capture_oauth_redirect return a code, and the file does not survive the call.
C4_LateResultIgnored ==
    (chist.loopEnd = "timeout" /\ (chist.lateWrite \/ ~child.wrote)) =>
        /\ captured_url = NoText
        /\ chist.returned =>
              /\ cap.code = None /\ cap.error = "no_redirect"
              /\ ~result_file.exists

\* a redirect with code and the right state arrived during the grace period
C4_Witness ==
    /\ chist.loopEnd = "timeout" /\ chist.lateWrite /\ chist.returned
    /\ child.url = Url(<<Param("code", "a"), Param("state", state)>>)
    /\ child.stdout = child.url
    /\ cap.error = "no_redirect" /\ ~result_file.exists

\* the redirect handed over (captured, or pasted) has an error parameter
RedirectWithError ==
    /\ Authenticating
    /\ captured_url.kind = "url"
    /\ "error" \in DOMAIN ParseQs(captured_url.q)

\* no request went to the token endpoint, none is about to, nothing was saved
NoExchangeNoSave ==
    /\ pc \notin {"auth_exchange", "save_stamp", "save_expires", "save_open",
                  "save_write", "save_chmod"}
    /\ hist.exchanged = 0 /\ hist.saves = 0
    /\ ~hist.wrote /\ tokenFile = hist.before

\* C12: when the captured or pasted redirect has an error parameter,
\* authenticate returns a failure whose kind is that parameter's value, with
\* the redirect's error_description; the token endpoint is not contacted and
\* the token store is not modified.
C12_RedirectErrorReturned ==
    RedirectWithError =>
        /\ NoExchangeNoSave
        /\ pc = "idle" =>
              /\ ret.token = None
              /\ ret.error = ParseQs(captured_url.q)["error"]
              /\ "error_description" \in DOMAIN ParseQs(captured_url.q) =>
                    ret.desc = ParseQs(captured_url.q)["error_description"]

\* the automatic path returned access_denied with the redirect's description
C12_Witness ==
    /\ RedirectWithError /\ caller = "authenticate" /\ pc = "idle"
    /\ chist.returned /\ chist.launched
    /\ ret.error = "access_denied" /\ ret.desc = "d"

\* capture (automatic path) and validation gave a code with the generated state
Validated ==
    /\ caller = "authenticate" => chist.returned
    /\ cap.error = None /\ Truthy(cap.code) /\ cap.state = state

\* authenticate / authenticate_headless returned the token dict
ReturnedSuccess ==
    /\ Authenticating /\ pc = "idle"
    /\ ret.op = caller /\ ret.error = None /\ ret.data # NoneDict

\* C13: within one authenticate call the token exchange is invoked at most
\* once and only after a redirect with a code and the matching state was
\* obtained; save_tokens is invoked at most once and only after the exchange
\* returned successfully; after a failure no later step occurs; a returned
\* success implies capture, validate, exchange, save happened, in that order.
C13_StepsInOrder ==
    Authenticating =>
        /\ hist.exchanged <= 1 /\ hist.saves <= 1
        /\ (pc = "auth_exchange" \/ hist.exchanged >= 1) => Validated
        /\ hist.saves >= 1 => (hist.exchanged = 1 /\ hist.response # NoneDict)
        /\ pc \in {"save_stamp", "save_expires", "save_open", "save_write", "save_chmod"}
              => hist.saves = 1
        /\ hist.wrote => hist.saves = 1
        /\ (pc = "idle" /\ ret.op = caller /\ ret.error # None) =>
              /\ ret.error # "token_exchange" => (hist.exchanged = 0 /\ hist.saves = 0)
              /\ hist.failure # None => hist.saves = 0
        /\ hist.failure # None => (pc = "idle" /\ hist.saves = 0 /\ ~hist.wrote)
        /\ ReturnedSuccess =>
              /\ Validated /\ hist.exchanged = 1 /\ hist.saves = 1
              /\ ret.data = tokenFile.content.data
              /\ hist.response = [k \in DOMAIN hist.response |-> ret.data[k]]

\* the automatic path returned the record it exchanged and saved
C13_Witness ==
    /\ ReturnedSuccess /\ caller = "authenticate"
    /\ chist.launched /\ hist.exchanged = 1 /\ hist.saves = 1 /\ hist.wrote
    /\ tokenFile.content = JsonOf(ret.data)

\* capture_oauth_redirect returned a failure to authenticate
CaptureFailed == caller = "authenticate" /\ chist.returned /\ cap.error # None

\* C14: whenever capture_oauth_redirect returns a failure, authenticate
\* returns that same error kind and error_description unchanged (no
\* remapping, no masking by the state_mismatch or no_code checks), and
\* performs no exchange.
C14_CaptureFailurePropagated ==
    CaptureFailed =>
        /\ pc \in {"auth_validate", "idle"}
        /\ hist.exchanged = 0 /\ hist.saves = 0 /\ tokenFile = hist.before
        /\ pc = "idle" =>
              (ret.op = "authenticate" /\ ret.token = None
                 /\ ret.error = cap.error /\ ret.desc = cap.desc)

\* the helper exited without a redirect; authenticate returned no_redirect
C14_Witness ==
    /\ CaptureFailed /\ pc = "idle" /\ chist.loopEnd = "exit"
    /\ cap.state = None /\ cap.code = None
    /\ ret.error = "no_redirect"
    /\ ret.desc = "Did not receive redirect within timeout"

\* C16: if the helper is not installed or not discoverable for the platform,
\* capture_oauth_redirect fails with error kind capturer_unavailable carrying
\* remediation text, before writing any handshake file and without launching
\* a child process.
C16_CapturerUnavailable ==
    (chist.notReady /\ chist.returned) =>
        /\ cap.error = "capturer_unavailable"
        /\ cap.desc \in NotReadyMessages
        /\ ~chist.argsWritten /\ ~chist.launched /\ child = NoChild

\* capture_oauth_redirect returned after parsing the URL it captured
ParsedCapture ==
    caller = "authenticate" /\ chist.returned /\ captured_url.kind = "url"

\* C17: for every captured URL the parse result of capture_oauth_redirect is
\* decided in this order: an error parameter gives a failure with that error
\* and its error_description (a default text if absent), even when a code is
\* present; otherwise no code parameter gives no_code; otherwise the result is
\* (code, state) with no error.
C17_ParseOrder ==
    ParsedCapture =>
        LET params == ParseQs(captured_url.q)
        IN  /\ "error" \in DOMAIN params =>
                  /\ cap.code = None /\ cap.state = None
                  /\ cap.error = params["error"]
                  /\ cap.desc = IF "error_description" \in DOMAIN params
                                    THEN params["error_description"]
                                    ELSE "Unknown error"
            /\ ("error" \notin DOMAIN params /\ "code" \notin DOMAIN params) =>
                  (cap.code = None /\ cap.state = None /\ cap.error = "no_code")
            /\ ("error" \notin DOMAIN params /\ "code" \in DOMAIN params) =>
                  /\ cap.error = None /\ cap.desc = None
                  /\ cap.code = params["code"]
                  /\ cap.state = IF "state" \in DOMAIN params THEN params["state"]
                                                                ELSE None

\* a redirect with both a code and an error was captured from the result file
C17_Witness ==
    /\ ParsedCapture /\ chist.loopEnd = "code"
    /\ captured_url = Url(<<Param("code", "a"), Param("error", "access_denied")>>)
    /\ cap = CapError("access_denied", "Unknown error")

\* the outcome kind of a validation: the error kind, or "proceed" with the code
Outcome(c) == IF c.error # None THEN <<c.error, None>> ELSE <<"proceed", c.code>>

\* what the manual path makes of text t pasted when st was generated
ManualOutcome(t, st) == Outcome(HeadlessParse(t, st))

\* what the automatic path makes of t as the captured URL
AutomaticOutcome(t, st) == Outcome(Validate(ParseCaptured(t), st))

\* the current attempt has decided on the redirect it was handed
Decided ==
    /\ Authenticating
    /\ caller = "authenticate" => (chist.returned /\ pc # "auth_validate")
    /\ caller = "authenticate_headless" => pc # "hl_paste"

\* the outcome kind of the current attempt
ActualOutcome ==
    IF pc = "idle" /\ hist.exchanged = 0 THEN <<ret.error, None>>
                                         ELSE <<"proceed", cap.code>>

\* C18: the manual and the automatic path apply the same validation: for
\* every redirect URL and generated state, the URL pasted to
\* authenticate_headless and the URL captured for authenticate give the same
\* outcome kind (the redirect's error kind, no_code, state_mismatch, or
\* proceeding to the exchange with the same code); an empty paste is no_input
\* and a malformed pasted URL is parse_error.
C18_SameValidation ==
    Decided =>
        /\ captured_url.kind = "url" =>
              /\ ActualOutcome = ManualOutcome(captured_url, state)
              /\ ActualOutcome = AutomaticOutcome(captured_url, state)
        /\ (caller = "authenticate_headless" /\ captured_url = Blank) =>
              (pc = "idle" /\ ret.error = "no_input")
        /\ (caller = "authenticate_headless" /\ captured_url = Malformed) =>
              (pc = "idle" /\ ret.error = "parse_error")

\* a pasted redirect whose code parameter is written with a quoted name goes
\* on to the exchange, as it does when captured
C18_Witness ==
    /\ caller = "authenticate_headless" /\ pc = "auth_exchange"
    /\ captured_url = Url(<<Param("c%6Fde", "a"), Param("state", state)>>)
    /\ AutomaticOutcome(captured_url, state) = <<"proceed", "a">>

\* the positions inside the polling loop
InLoop == {"cap_loop", "cap_poll_file", "cap_poll_proc"}

\* C22: at a poll tick at which the helper is found to have exited, polling
\* stops at that tick: a marker line of its stdout gives the captured URL, and
\* with or without one no further tick occurs; the attempt goes on to its end
\* without waiting for the timeout.
C22_ExitStopsPolling ==
    [][ /\ (pc = "cap_poll_proc" /\ child.st # "running") =>
              /\ pc' = "cap_cleanup"
              /\ elapsed' = elapsed
              /\ captured_url' = IF child.stdout # NoText THEN child.stdout
                                                          ELSE captured_url
        /\ pc \in {"cap_cleanup", "cap_wait", "cap_unlink", "cap_result"} =>
              (pc' \notin InLoop /\ elapsed' = elapsed)
      ]_vars

\* the helper printed the redirect, wrote no file and exited before the timeout
C22_Witness ==
    /\ chist.loopEnd = "exit" /\ chist.returned /\ elapsed < Timeout
    /\ ~child.wrote /\ child.stdout.kind = "url"
    /\ captured_url = child.stdout
    /\ cap.code = "a" /\ cap.error = None

C24_StaleResultNotAccepted ==
    /\ (chist.launched /\ ~child.wrote) => ~result_file.exists
    /\ (chist.launched /\ result_file.exists) => result_file.text = child.url
    /\ (caller = "authenticate" /\ captured_url # NoText) =>
          /\ chist.launched
          /\ child.wrote \/ child.stdout # NoText
          /\ captured_url = child.url
    /\ (chist.returned /\ cap.code # None) =>
          (chist.launched /\ child.url.kind = "url"
             /\ cap.code = ParseQs(child.url.q)["code"])

\* a stale file (state a) was there; the attempt returned what its own helper
\* wrote (state b)
C24_Witness ==
    /\ chist.stale /\ chist.returned /\ child.wrote
    /\ cap.code = "a" /\ cap.state = "b" /\ state = "b"
    /\ StaleResult.text # child.url

\* C26: if, after the startup check, the capturer writes a result file
\* containing a redirect with code= and then exits before the timeout,
\* capture_oauth_redirect returns that code, for every interleaving of the
\* capturer's write and exit with the per-tick sequence "check the result file,
\* then check whether the child exited".
C26_WrittenResultNotLost ==
    (/\ chist.returned /\ chist.loopEnd \in {"code", "exit"}
     /\ child.wrote /\ ~chist.lateWrite /\ child.st = "exited"
     /\ ContainsCodeEq(child.url))
        => cap = ParseCaptured(child.url)

\* C27: whenever capture_oauth_redirect returns after having launched the
\* capturer, the child process is no longer running (it exited or was
\* terminated or killed), on every return path, including the path where an
\* exception during polling is turned into unexpected_error.
C27_ChildStoppedOnReturn ==
    (chist.returned /\ chist.launched) => child.st # "running"

\* polling ended at the loop condition or at a break (lines 326-365)
PollingEnded == chist.loopEnd \in {"code", "exit", "timeout"}

\* C28 as stated: capture_oauth_redirect returns no_redirect if and only if no
\* non-empty URL text was obtained from either channel before polling ended.
\* Result-file content lacking "code=" never stops polling, but the last such
\* content read is what is parsed once polling ends by timeout or child exit:
\* the outcome is then the redirect's error kind or no_code, not no_redirect.
C28_ErrorOrNoCode ==
    /\ chist.loopEnd = "code" => ContainsCodeEq(captured_url)
    /\ (chist.returned /\ PollingEnded) =>
          /\ cap.error = "no_redirect" <=> Falsy(captured_url)
          /\ (captured_url.kind = "url" /\ ~ContainsCodeEq(captured_url)) =>
                /\ chist.loopEnd \in {"exit", "timeout"}
                /\ cap.code = None
                /\ cap.error = Get(ParseQs(captured_url.q), "error", "no_code")

\* C28, amended: capture_oauth_redirect returns no_redirect if and only if no
\* non-empty URL text was obtained from either channel before polling ended.
\* Result-file content lacking the literal "code=" never stops polling, and the
\* last such content read is what is parsed once polling ends by timeout or
\* child exit: the outcome is then the redirect's error kind, or the code when
\* parse_qs finds one under a percent-encoded name, or no_code, and never
\* no_redirect.
C28_NoRedirectIffNoText ==
    /\ chist.loopEnd = "code" => ContainsCodeEq(captured_url)
    /\ (chist.returned /\ PollingEnded) =>
          /\ cap.error = "no_redirect" <=> Falsy(captured_url)
          /\ (captured_url.kind = "url" /\ ~ContainsCodeEq(captured_url)) =>
                LET params == ParseQs(captured_url.q) IN
                /\ chist.loopEnd \in {"exit", "timeout"}
                /\ cap.error = IF "error" \in DOMAIN params THEN params["error"]
                               ELSE IF "code" \in DOMAIN params THEN None
                               ELSE "no_code"
                /\ cap.code = IF "error" \in DOMAIN params THEN None
                              ELSE Get(params, "code", None)

\* an error redirect was read from the result file, polling went on until the
\* timeout, and the redirect's error is what is returned
C28_Witness ==
    /\ chist.returned /\ chist.loopEnd = "timeout"
    /\ child.stdout = NoText /\ child.wrote
    /\ captured_url.kind = "url" /\ ~ContainsCodeEq(captured_url)
    /\ "error" \in DOMAIN ParseQs(captured_url.q)
    /\ cap.error = ParseQs(captured_url.q)["error"]

\* authenticate or authenticate_headless returned a token record
ReturnedTokens ==
    /\ Authenticating /\ pc = "idle" /\ ret.op = caller
    /\ ret.error = None /\ ret.data # NoneDict

\* C30: whenever authenticate or authenticate_headless returns a token record
\* rather than an error, the token store holds exactly that record, stamped
\* with saved_at/expires_at by this call; if save_tokens fails after a
\* successful exchange, the call returns an error of kind token_exchange and
\* never a success.
C30_ReturnedRecordIsStored ==
    /\ ReturnedTokens =>
          /\ tokenFile.exists /\ tokenFile.content = JsonOf(ret.data)
          /\ hist.saves = 1 /\ hist.wrote /\ hist.response # NoneDict
          /\ ret.data = StampExpiresAt(StampSavedAt(hist.response, clock), clock)
          /\ ret.token = hist.response["access_token"]
    /\ (Authenticating /\ pc = "idle" /\ hist.response # NoneDict
          /\ ~(tokenFile.exists /\ tokenFile.content.kind = "json"
                 /\ tokenFile.mode = OwnerOnly
                 /\ tokenFile.content.data
                      = StampExpiresAt(StampSavedAt(hist.response, clock), clock))) =>
          /\ ret.op = caller /\ ret.error = "token_exchange"
          /\ ret.token = None /\ ret.data = NoneDict

\* the manual flow returned a record with expires_at, which replaced the
\* record of an earlier login
C30_Witness ==
    /\ ReturnedTokens /\ caller = "authenticate_headless"
    /\ hist.before = OldTokenFile /\ tokenFile # hist.before
    /\ "expires_at" \in DOMAIN ret.data /\ tokenFile.content.data = ret.data

\* C25: for every non-200 response from the token endpoint,
\* exchange_code_for_tokens and refresh_access_token fail with a message
\* carrying the provider's error_description when the body has one and the raw
\* response body otherwise, including when the body is not JSON.
C25_FailureCarriesDescriptionOrBody ==
    hist.reply # NoReply =>
        hist.failure =
            (IF hist.refresh = "failed" THEN "Token refresh failed"
                                        ELSE "Token exchange failed")
              \o ": " \o hist.reply.status \o " - "
              \o (IF "error_description" \in DOMAIN hist.reply.obj
                     THEN hist.reply.obj["error_description"]
                     ELSE hist.reply.text)

\* the token exchange was attempted and failed
ExchangeFailed == Authenticating /\ hist.exchanged >= 1 /\ hist.response = NoneDict

\* C15: whenever the token exchange fails (non-200 response or transport
\* error), authenticate and authenticate_headless return error kind
\* token_exchange with the message of the failure, and the token store is
\* left unchanged.
C15_ExchangeFailureReported ==
    ExchangeFailed =>
        /\ pc = "idle"
        /\ ret.op = caller /\ ret.token = None /\ ret.data = NoneDict
        /\ ret.error = "token_exchange"
        /\ hist.failure \in ExchangeFailures /\ ret.desc = hist.failure
        /\ hist.saves = 0 /\ ~hist.wrote /\ tokenFile = hist.before

\* a non-200 response on the manual path, a token file being there
C15_Witness ==
    /\ ExchangeFailed /\ caller = "authenticate_headless"
    /\ ret.desc = "Token exchange failed: 400 - invalid_grant"
    /\ tokenFile = OldTokenFile

\* string x is one of the values of record r
Carries(r, x) == \E k \in DOMAIN r : r[k] = x

\* C21: the PKCE verifier of an attempt is transmitted only in that attempt's
\* token exchange request: it is not in the authorization URL, not in the
\* args handshake file, not in a returned error; and the verifier sent in the
\* exchange is the one whose challenge was put in the authorization URL.
C21_VerifierOnlyInExchange ==
    Authenticating =>
        /\ code_verifier.value \in Verifiers
        /\ ~Carries(hist.auth_url, code_verifier.value)
        /\ chist.argsWritten =>
              /\ chist.args.urlScheme # code_verifier.value
              /\ ~Carries(chist.args.authUrl, code_verifier.value)
        /\ ret.error # code_verifier.value /\ ret.desc # code_verifier.value
        /\ cap.error # code_verifier.value /\ cap.desc # code_verifier.value
        /\ hist.exchanged = 0 => hist.request = NoneDict
        /\ hist.exchanged >= 1 =>
              /\ hist.request.code_verifier = code_verifier.value
              /\ \A v \in Verifiers :
                    hist.auth_url.code_challenge = "S256(" \o v \o ")"
                        => hist.request.code_verifier = v

\* the automatic path sent the exchange request
C21_Witness ==
    /\ caller = "authenticate" /\ hist.exchanged = 1 /\ chist.argsWritten
    /\ code_verifier.value = "v2"
    /\ hist.request.code_verifier = "v2"
    /\ hist.auth_url.code_challenge = "S256(v2)"
    /\ chist.args.authUrl = hist.auth_url

----------------------------------------------------------------------------
(* Properties of get_valid_token and the token store (SpecToken).          *)

\* get_valid_token has passed the expiry test of line 198 in the current call
PastCheck == caller = "get_valid_token" /\ hist.now # -1
\* ... and has sent, or is about to send, the refresh request
RefreshAttempted == pc = "gvt_refresh" \/ hist.refresh # "no"
\* the stored expiry the test used, in seconds
StoredExpiresAt == Get(tokens, "expires_at", 0)
\* time.time() was later than expires_at - 300 seconds
WithinBuffer == hist.now > (StoredExpiresAt - 300) * TicksPerSec

\* C5 as stated: get_valid_token attempts a refresh exactly when the current
\* time is later than expires_at minus 300 seconds.
C5_RefreshExactlyWhenExpiring ==
    PastCheck => (RefreshAttempted <=> WithinBuffer)

\* C5 as amended: a refresh is attempted exactly when the current time is later
\* than expires_at - 300 s and the stored record has a non-empty refresh_token
\* (so with a refresh_token: expires_at = now + 200 refreshes, now + 400 does
\* not); when the time is not later, no refresh is attempted and the stored
\* access_token is returned.
C5_RefreshIffExpiringWithRefreshToken ==
    PastCheck =>
        /\ RefreshAttempted <=>
              (WithinBuffer /\ Get(tokens, "refresh_token", None) \notin {None, ""})
        /\ (Truthy(Get(tokens, "refresh_token", None))
              /\ hist.now = (StoredExpiresAt - 200) * TicksPerSec) => RefreshAttempted
        /\ hist.now = (StoredExpiresAt - 400) * TicksPerSec => ~RefreshAttempted
        /\ ~WithinBuffer =>
              /\ pc = "idle" /\ hist.refresh = "no"
              /\ ret = Ret("get_valid_token", FALSE, tokens["access_token"], None, NoneDict)

\* a record with expires_at = now + 200 was found and the refresh went through
C5_Witness ==
    /\ PastCheck /\ pc = "idle" /\ hist.refresh = "ok"
    /\ hist.now = (StoredExpiresAt - 200) * TicksPerSec

\* get_valid_token returned the token of a refresh it has saved
RefreshSaved ==
    /\ pc = "idle" /\ ret.op = "get_valid_token"
    /\ hist.refresh = "ok" /\ ret.token # None

\* C6: after a successful refresh whose response omits refresh_token, the
\* persisted record has the refresh_token of the record stored before the
\* refresh; when the response has one, the persisted record has the new one.
C6_RefreshTokenRetained ==
    (RefreshSaved /\ tokenFile.exists) =>
        /\ tokenFile.content.kind = "json"
        /\ Get(tokenFile.content.data, "refresh_token", None) =
              IF "refresh_token" \in DOMAIN hist.response
                  THEN hist.response["refresh_token"]
                  ELSE hist.before.content.data["refresh_token"]

C6_Witness ==
    /\ RefreshSaved /\ tokenFile.exists
    /\ "refresh_token" \notin DOMAIN hist.response
    /\ tokenFile.content.data["refresh_token"] = "RT1"
    /\ tokenFile.content.data["access_token"] = "AT2"

\* C7: when the refresh request fails, get_valid_token returns None, does not
\* raise, and has left the persisted record as it was before the call.
C7_FailedRefreshKeepsRecord ==
    (caller = "get_valid_token" /\ hist.refresh = "failed") =>
        /\ pc = "idle"
        /\ ret = Ret("get_valid_token", FALSE, None, None, NoneDict)
        /\ ~hist.wrote
        /\ tokenFile = hist.before \/ (rpc = "exited" /\ tokenFile = NoFile)

C7_Witness ==
    /\ caller = "get_valid_token" /\ hist.refresh = "failed"
    /\ tokenFile.exists /\ tokenFile = hist.before

\* C19: when the stored record is not within the 300-second expiry buffer,
\* get_valid_token returns the stored access_token as it is, sends no request
\* to the provider and leaves the persisted record unchanged; when no record
\* is stored it returns no token and changes nothing.
C19_NotExpiringNoEffect ==
    /\ (PastCheck /\ ~WithinBuffer) =>
          /\ pc = "idle" /\ ~ret.raised
          /\ ret.token = hist.before.content.data["access_token"]
          /\ hist.refresh = "no" /\ hist.response = NoneDict /\ hist.saves = 0
          /\ ~hist.wrote
          /\ tokenFile = hist.before \/ (rpc = "exited" /\ tokenFile = NoFile)
    /\ (caller = "get_valid_token" /\ ~hist.before.exists) =>
          /\ pc \in {"gvt_exists", "idle"}
          /\ pc = "idle" => (ret.token = None /\ ~ret.raised)
          /\ hist.refresh = "no" /\ hist.saves = 0 /\ ~hist.wrote
          /\ tokenFile = NoFile

\* a record saved 50 s ago with expires_in = 400 gave its access_token back
C19_Witness ==
    /\ PastCheck /\ ~WithinBuffer /\ pc = "idle"
    /\ hist.now > 0 /\ tokenFile = hist.before
    /\ ret.token = tokenFile.content.data["access_token"]

\* the record get_valid_token loaded has no expires_at field
Undated == PastCheck /\ "expires_at" \notin DOMAIN tokens

\* C29: for a stored record that has no expires_at field (saved from a
\* provider response without expires_in), get_valid_token treats the token as
\* expiring on every call: it attempts a refresh when the record has a
\* refresh_token and returns None otherwise, and never returns the stored
\* access_token.
C29_UndatedRecordAlwaysExpiring ==
    /\ (caller = "get_valid_token" /\ pc = "idle" /\ ~ret.raised
          /\ hist.before.exists /\ hist.before.content.kind = "json"
          /\ tokens = hist.before.content.data /\ ~NotTokens(tokens)
          /\ "expires_at" \notin DOMAIN tokens) => hist.now # -1
    /\ Undated =>
          /\ RefreshAttempted <=> Truthy(Get(tokens, "refresh_token", None))
          /\ ~RefreshAttempted => (pc = "idle" /\ ret.token = None)
          /\ (pc = "idle" /\ ret.token # None) =>
                /\ hist.refresh = "ok"
                /\ ret.token = Get(hist.response, "access_token", None)

\* a record the program saved from a refresh response without expires_in is
\* refreshed again by the next call, at a clock value later than 0
C29_Witness ==
    /\ Undated /\ pc = "idle" /\ hist.refresh = "ok" /\ hist.now > 0
    /\ hist.before.content.data["access_token"] = "AT2"
    /\ "saved_at" \in DOMAIN tokens /\ "expires_in" \notin DOMAIN tokens

\* C8: every record persisted by save_tokens from input containing expires_in
\* satisfies expires_at = saved_at + expires_in, whatever the clock does
\* during the call.
C8_ExpiresAtFromSavedAt ==
    (tokenFile.exists /\ tokenFile.content.kind = "json"
       /\ "expires_in" \in DOMAIN tokenFile.content.data) =>
        tokenFile.content.data["expires_at"] =
            tokenFile.content.data["saved_at"] + tokenFile.content.data["expires_in"]

\* C9: a load_tokens running concurrently with save_tokens observes a complete
\* record (the previous or the new one) whenever the file is there, never an
\* empty or partially written file.
C9_ReaderSeesCompleteRecord ==
    (rret.done /\ rret.existed) => rret.value # NoneDict

\* C10: whenever the token file exists and holds token data, its permissions
\* are owner-only, in every intermediate state of save_tokens.
C10_TokenDataOwnerOnly ==
    (tokenFile.exists /\ tokenFile.content.kind = "json") => tokenFile.mode = "0600"

----------------------------------------------------------------------------
(* Properties of load_tokens on any file content (SpecLoad).               *)

\* the token file the current get_valid_token call found holds no record:
\* it is missing, unreadable as text, no JSON, or JSON that is no object
NoRecordStored ==
    \/ ~hist.before.exists
    \/ hist.before.content.kind # "json"

\* C11: load_tokens never raises to its caller and returns None for a missing
\* file, a file removed before the read, undecodable bytes and invalid JSON;
\* get_valid_token returns None rather than raising for any such content,
\* including valid JSON that is not an object.
C11_LoadNeverRaises ==
    /\ rret.done => (~rret.raised /\ (~rret.existed => rret.value = NoneDict))
    /\ (caller = "get_valid_token" /\ pc = "idle" /\ NoRecordStored) =>
          (~ret.raised /\ ret.token = None)

----------------------------------------------------------------------------
(* Properties of generate_code_verifier (SpecPkce).                        *)

\* C20: every verifier generate_code_verifier produces, with the default
\* argument and with any length argument of the documented range 43..128, has
\* between 43 and 128 characters.
C20_VerifierLengthInRange ==
    (code_verifier.at = "returned" /\ code_verifier.length \in 43..128) =>
        (code_verifier.verifier >= 43 /\ code_verifier.verifier <= 128)

\* the longest documented length: 171 characters encoded, 128 returned
C20_Witness ==
    /\ code_verifier.at = "returned" /\ code_verifier.length = 128
    /\ EncodeStripped(code_verifier.random_bytes) = 171
    /\ code_verifier.verifier = 128

\* C31: generate_code_verifier(length) returns a verifier whose length in
\* characters equals its length argument, for every length in 43..128 (the
\* default, 64, among them).
C31_VerifierLengthIsArgument ==
    (code_verifier.at = "returned" /\ code_verifier.length \in MinLength..MaxLength) =>
        code_verifier.verifier = code_verifier.length

====
